---- MODULE Spec2Model ----
(***************************************************************************)
(* HackStream task board: the priority calculator, the status resolver,    *)
(* the ranking policy and the execution simulator (PrioritySimulation),    *)
(* together with the board operations of App that feed them.               *)
(***************************************************************************)
EXTENDS Integers, Sequences, FiniteSets, TLC

VARIABLES
    tasks,                   \* App: tasksByWorkspace[activeWs.id] as normalizeTasks hands it on
    completedTaskIds,        \* PrioritySimulation: useState(new Set())
    completionOrder,         \* PrioritySimulation: useState([])
    isPlaying,               \* PrioritySimulation: useState(false)
    initiallyBlockedTaskIds, \* PrioritySimulation: useState(new Set())
    sortedTasks,             \* PrioritySimulation: the sortedTasks memo of the last render
    sortedForList,           \* App: the sortedForList memo of the last render
    executionOrderRef,       \* PrioritySimulation: executionOrderRef.current
    interval,                \* PrioritySimulation: whether a setInterval timer is armed
    notified,                \* App: the isPlaying values onSimulationStateChange was handed
                             \* by the commits of the last handler
    last,                    \* the handler that ran last
    call                     \* the pending or finished call of a pure engine function

vars == <<tasks, completedTaskIds, completionOrder, isPlaying, initiallyBlockedTaskIds,
          sortedTasks, sortedForList, executionOrderRef, interval, notified, last, call>>

(***************************************************************************)
(* JavaScript values.  A number is NaN, +Infinity, -Infinity or a finite   *)
(* value kept as an exact fraction n/d with d > 0.  The inputs used are    *)
(* small integers, for which the double results compare exactly as the     *)
(* fractions do; in particular the literal 0.001 and the quotient 1/1000   *)
(* are the same double, as they are the same fraction here.  -0 is kept    *)
(* as 0 (it is finite and -0 >= 0 holds in JavaScript).                    *)
(***************************************************************************)
Undefined == [k |-> "undefined", n |-> 0, d |-> 1]
Null == [k |-> "null", n |-> 0, d |-> 1]
InvalidDate == [k |-> "invalid", n |-> 0, d |-> 1]
NaN == [k |-> "nan", n |-> 0, d |-> 1]
PosInf == [k |-> "inf", n |-> 1, d |-> 1]
NegInf == [k |-> "inf", n |-> -1, d |-> 1]

Abs(x) == IF x < 0 THEN -x ELSE x

RECURSIVE Gcd(_, _)
Gcd(a, b) == IF b = 0 THEN a ELSE Gcd(b, a % b)

Frac(n, d) ==
    LET g == Gcd(Abs(n), Abs(d))
        s == IF d < 0 THEN -1 ELSE 1
    IN  [k |-> "fin", n |-> (s * n) \div g, d |-> (s * d) \div g]

Num(i) == Frac(i, 1)

IsNullish(v) == v = Undefined \/ v = Null

IsNaN(x) == x.k = "nan"
IsFinite(x) == x.k = "fin"
Sign(x) == IF x.n > 0 THEN 1 ELSE IF x.n < 0 THEN -1 ELSE 0

\* a > 0 and a <= 0 on numbers: every comparison with NaN is false.
GreaterThanZero(x) == ~IsNaN(x) /\ x.n > 0
LessOrEqualZero(x) == ~IsNaN(x) /\ x.n <= 0

Mul(a, b) ==
    IF IsNaN(a) \/ IsNaN(b) THEN NaN
    ELSE IF IsFinite(a) /\ IsFinite(b) THEN Frac(a.n * b.n, a.d * b.d)
    ELSE IF Sign(a) * Sign(b) = 0 THEN NaN
    ELSE IF Sign(a) * Sign(b) > 0 THEN PosInf ELSE NegInf

Div(a, b) ==
    IF IsNaN(a) \/ IsNaN(b) THEN NaN
    ELSE IF IsFinite(a) /\ IsFinite(b) THEN
        IF b.n # 0 THEN Frac(a.n * b.d, a.d * b.n)
        ELSE IF a.n = 0 THEN NaN
        ELSE IF a.n > 0 THEN PosInf ELSE NegInf
    ELSE IF IsFinite(a) THEN Num(0)
    ELSE IF ~IsFinite(b) THEN NaN
    ELSE IF Sign(a) * (IF b.n < 0 THEN -1 ELSE 1) > 0 THEN PosInf ELSE NegInf

Sub(a, b) ==
    IF IsNaN(a) \/ IsNaN(b) THEN NaN
    ELSE IF IsFinite(a) /\ IsFinite(b) THEN
        LET g == Gcd(a.d, b.d)
        IN  Frac(a.n * (b.d \div g) - b.n * (a.d \div g), (a.d \div g) * b.d)
    ELSE IF IsFinite(a) THEN (IF Sign(b) > 0 THEN NegInf ELSE PosInf)
    ELSE IF IsFinite(b) THEN a
    ELSE IF Sign(a) = Sign(b) THEN NaN ELSE a

\* a < b on numbers.
Less(a, b) == LET s == Sub(b, a) IN
    IF IsNaN(a) \/ IsNaN(b) THEN FALSE
    ELSE IF IsNaN(s) THEN FALSE
    ELSE Sign(s) > 0

\* Number(v ?? dflt) for v undefined, null or already a number.
NumberOr(v, dflt) == IF IsNullish(v) THEN Num(dflt) ELSE v

(***************************************************************************)
(* Priority Calculator                                                     *)
(***************************************************************************)
MsPerHour == 3600000
UrgencyFloor == Frac(1, 1000)
DefaultImportance == 3
DefaultEffort == 1
DefaultHours == 0

CeilDiv(a, b) == IF a % b = 0 THEN a \div b ELSE (a \div b) + 1

\* deadline: Undefined (none), InvalidDate (a string Date cannot parse), or a date,
\* kept as the whole milliseconds from now to it, which is all the function reads
\* of the date and the clock.
calculateHoursUntilDeadline(deadline) ==
    IF deadline = Undefined THEN Null
    ELSE IF deadline = InvalidDate THEN Null
    ELSE LET hrs == CeilDiv(deadline.n, MsPerHour) IN
         Num(IF hrs > 0 THEN hrs ELSE 0)

\* The floor set to 0.01.
urgencyOfFloorHundredth(hoursUntilDeadline) ==
    IF ~IsFinite(hoursUntilDeadline) \/ LessOrEqualZero(hoursUntilDeadline)
    THEN Frac(1, 100)
    ELSE Div(Num(1), hoursUntilDeadline)

\* No deadline or overdue counts as one hour left, ahead of every whole-hour window.
urgencyOfOverdueFirst(hoursUntilDeadline) ==
    IF ~IsFinite(hoursUntilDeadline) \/ LessOrEqualZero(hoursUntilDeadline)
    THEN Num(1)
    ELSE Div(Num(1), hoursUntilDeadline)

urgencyOf(hoursUntilDeadline) ==
    IF ~IsFinite(hoursUntilDeadline) \/ LessOrEqualZero(hoursUntilDeadline)
    THEN UrgencyFloor
    ELSE Div(Num(1), hoursUntilDeadline)

safeEffortOf(effort) == IF GreaterThanZero(effort) THEN effort ELSE Num(1)

finiteOrZero(p) == IF IsFinite(p) THEN p ELSE Num(0)

calculateComputedPriority(task) ==
    LET importance == NumberOr(task.importance, DefaultImportance)
        effort == NumberOr(task.effort, DefaultEffort)
        given == task.hours_left_until_deadline
        hours0 == IF task.deadline # Undefined /\ IsNullish(given)
                  THEN calculateHoursUntilDeadline(task.deadline)
                  ELSE given
        hoursUntilDeadline == NumberOr(hours0, DefaultHours)
        urgency == urgencyOf(hoursUntilDeadline)
        safeEffort == safeEffortOf(effort)
        computedPriority == Div(Mul(importance, urgency), safeEffort)
    IN  finiteOrZero(computedPriority)

\* The simulator's own copy of the formula, inside taskBreakdowns.
breakdownPriority(task) ==
    LET importance == NumberOr(task.importance, DefaultImportance)
        effort == NumberOr(task.effort, DefaultEffort)
        hoursUntilDeadline == NumberOr(task.hours_left_until_deadline, DefaultHours)
        urgency == urgencyOf(hoursUntilDeadline)
        safeEffort == safeEffortOf(effort)
        computedPriority == Div(Mul(importance, urgency), safeEffort)
    IN  finiteOrZero(computedPriority)

(***************************************************************************)
(* Status Resolver                                                         *)
(***************************************************************************)
\* String(s ?? "").toLowerCase().trim() on the status strings the model uses.
lowerTrim(s) ==
    CASE s = " Done " -> "done"
      [] s = "DONE" -> "done"
      [] s = "In Progress" -> "in progress"
      [] s = " Blocked" -> "blocked"
      [] OTHER -> s

\* The normalizer without its third line, as TaskPriorityGraphD3 has it.
normalizeStatusWithoutRestricted(s) ==
    LET v == lowerTrim(s) IN
    IF v = "done" THEN "done"
    ELSE IF v = "ongoing" \/ v = "on going" \/ v = "in progress" THEN "ongoing"
    ELSE "todo"

normalizeStatus(s) ==
    LET v == lowerTrim(s) IN
    IF v = "done" THEN "done"
    ELSE IF v = "ongoing" \/ v = "on going" \/ v = "in progress" THEN "ongoing"
    ELSE IF v = "restricted" \/ v = "blocked" THEN "restricted"
    ELSE "todo"

\* String(id) of a task id (a number, Date.now() at creation) is TLC's ToString(id).

Indices(seq) == 1..Len(seq)

\* The array a map builds, as a sequence value.
Array(f) == f \o <<>>
Range(seq) == {seq[i] : i \in Indices(seq)}

\* new Map(allTasks.map(t => [String(t.id), t])).get(id): the last entry with the key.
HasId(allTasks, id) == \E i \in Indices(allTasks) : ToString(allTasks[i].id) = id
byIdGet(allTasks, id) ==
    LET hits == {i \in Indices(allTasks) : ToString(allTasks[i].id) = id}
    IN  allTasks[CHOOSE i \in hits : \A j \in hits : j <= i]

isDone(t) == normalizeStatus(t.status) = "done"

\* A dependency that is not found counts as unmet.
unmetOfMissingBlocks(task, allTasks) ==
    SelectSeq(task.dependsOn,
              LAMBDA id : ~HasId(allTasks, id) \/ ~isDone(byIdGet(allTasks, id)))

\* A dependency that is found counts as unmet, done or not.
unmetOfDoneBlocks(task, allTasks) ==
    SelectSeq(task.dependsOn, LAMBDA id : HasId(allTasks, id))

\* A dependency that is done itself still counts as unmet while one of its own
\* dependencies is not done: the check goes two levels deep.
unmetOfTransitive(task, allTasks) ==
    SelectSeq(task.dependsOn,
              LAMBDA id :
                  /\ HasId(allTasks, id)
                  /\ \/ ~isDone(byIdGet(allTasks, id))
                     \/ \E d \in Range(byIdGet(allTasks, id).dependsOn) :
                            HasId(allTasks, d) /\ ~isDone(byIdGet(allTasks, d)))

\* The dependency ids of a task whose dependsOn is an array (normalizeTasks sees to it).
unmetOf(task, allTasks) ==
    SelectSeq(task.dependsOn,
              LAMBDA id : HasId(allTasks, id) /\ ~isDone(byIdGet(allTasks, id)))

Take(seq, k) == IF Len(seq) <= k THEN seq ELSE SubSeq(seq, 1, k)

MaxReasonNames == 4

\* title || id
titleOrId(allTasks, id) ==
    IF HasId(allTasks, id) /\ byIdGet(allTasks, id).title # ""
    THEN byIdGet(allTasks, id).title
    ELSE id

NoReason == [names |-> <<>>, more |-> FALSE, blocked |-> FALSE]

blockedReasonOf(unmet, allTasks) ==
    IF Len(unmet) > 0
    THEN [names |-> Take(Array([i \in Indices(unmet) |-> titleOrId(allTasks, unmet[i])]),
                         MaxReasonNames),
          more |-> Len(unmet) > MaxReasonNames,
          blocked |-> TRUE]
    ELSE NoReason

\* Unmet dependencies restrict a done task too.
calculateEffectiveStatusBlocksDone(task, allTasks) ==
    LET raw == normalizeStatus(task.status)
        unmet == unmetOf(task, allTasks)
        blockedByDeps == Len(unmet) > 0
    IN  [effectiveStatus |-> IF blockedByDeps THEN "restricted" ELSE raw,
         blockedReason |-> blockedReasonOf(unmet, allTasks)]

calculateEffectiveStatus(task, allTasks) ==
    LET raw == normalizeStatus(task.status)
        unmet == unmetOf(task, allTasks)
        blockedByDeps == Len(unmet) > 0
    IN  [effectiveStatus |-> IF raw # "done" /\ blockedByDeps THEN "restricted" ELSE raw,
         blockedReason |-> blockedReasonOf(unmet, allTasks)]

(***************************************************************************)
(* Ranking Policy                                                          *)
(***************************************************************************)
\* Array.prototype.sort with a comparator that returns a number: a stable sort, an
\* element moving before another exactly when the comparator is negative.  A NaN
\* from the comparator counts as 0, which is what Sign gives it.
StableSort(seq, cmp) ==
    LET before(j, i) == LET c == cmp[<<j, i>>] IN c < 0 \/ (c = 0 /\ j < i)
        rank == Array([i \in Indices(seq) |->
                    Cardinality({j \in Indices(seq) : before(j, i)}) + 1])
    IN  Array([p \in Indices(seq) |-> seq[CHOOSE i \in Indices(seq) : rank[i] = p]])

\* Recalculated hours and computed priority, as normalizeTasks adds them; dependsOn
\* is an array in every stored task, so its conversion from names does not run.
normalizeTask(t) ==
    LET recalculated == calculateHoursUntilDeadline(t.deadline)
        hoursLeft == IF t.deadline # Undefined /\ recalculated # Null
                     THEN recalculated ELSE t.hours_left_until_deadline
        t2 == [t EXCEPT !.hours_left_until_deadline = hoursLeft]
    IN  [id |-> t.id, title |-> t.title, status |-> t.status,
         importance |-> t.importance, effort |-> t.effort,
         hours_left_until_deadline |-> hoursLeft, deadline |-> t.deadline,
         dependsOn |-> t.dependsOn,
         computedPriority |-> calculateComputedPriority(t2)]

normalizeTasks(store) == Array([i \in Indices(store) |-> normalizeTask(store[i])])

\* What sortByPriority reads of a task: its computed priority and the effective
\* status calculateEffectiveStatus(a, tasks) gives it, which the card shows too.
listEntries(all) ==
    Array([i \in Indices(all) |->
        [id |-> all[i].id,
         computedPriority |-> all[i].computedPriority,
         effectiveStatus |-> calculateEffectiveStatus(all[i], all).effectiveStatus]])

\* The comparator of sortByPriority.
listCompare(a, b) ==
    LET aBlocked == a.effectiveStatus = "restricted"
        bBlocked == b.effectiveStatus = "restricted"
    IN  IF aBlocked # bBlocked THEN (IF aBlocked THEN 1 ELSE -1)
        ELSE Sign(Sub(b.computedPriority, a.computedPriority))

\* sortByPriority(filteredTasks) with no search and no filter set.
listComparisons(entries) ==
    [p \in Indices(entries) \X Indices(entries) |-> listCompare(entries[p[1]], entries[p[2]])]

sortByPriority(store) ==
    LET entries == listEntries(normalizeTasks(store))
    IN  StableSort(entries, listComparisons(entries))

(***************************************************************************)
(* Execution Simulator: what a render derives                              *)
(***************************************************************************)
\* The task set without the overlay of the completed tasks.
tasksWithoutSimulationStatus(all, completed) == all

tasksWithSimulationStatus(all, completed) ==
    Array([i \in Indices(all) |->
        IF ToString(all[i].id) \in completed
        THEN [all[i] EXCEPT !.status = "done"] ELSE all[i]])

taskBreakdowns(all, completed) ==
    LET overlay == tasksWithSimulationStatus(all, completed) IN
    Array([i \in Indices(all) |->
        LET es == calculateEffectiveStatus(all[i], overlay).effectiveStatus IN
        [id |-> all[i].id,
         computedPriority |-> breakdownPriority(all[i]),
         isBlocked |-> es = "restricted",
         effectiveStatus |-> es,
         isCompletedInSimulation |-> ToString(all[i].id) \in completed]])

\* The priority difference taken the other way round.
simCompareAscending(a, b) ==
    IF a.isBlocked # b.isBlocked THEN (IF a.isBlocked THEN 1 ELSE -1)
    ELSE Sign(Sub(a.computedPriority, b.computedPriority))

simCompare(a, b) ==
    IF a.isBlocked # b.isBlocked THEN (IF a.isBlocked THEN 1 ELSE -1)
    ELSE Sign(Sub(b.computedPriority, a.computedPriority))

simComparisons(entries) ==
    [p \in Indices(entries) \X Indices(entries) |-> simCompare(entries[p[1]], entries[p[2]])]

sortedTasksOf(all, completed) ==
    LET entries == taskBreakdowns(all, completed)
    IN  StableSort(entries, simComparisons(entries))

\* The filter letting restricted tasks into the execution order.
isEligibleIgnoresBlocked(t) == t.effectiveStatus # "done" /\ ~t.isCompletedInSimulation

\* The filter without its test of the completed set.
isEligibleIgnoresCompleted(t) == ~t.isBlocked /\ t.effectiveStatus # "done"

isEligible(t) == ~t.isBlocked /\ t.effectiveStatus # "done" /\ ~t.isCompletedInSimulation

\* The execution order without its filter: the whole sorted list.
executionOrderOfUnfiltered(sorted) == sorted

executionOrderOf(sorted) == SelectSeq(sorted, isEligible)

\* The ids the simulator finds restricted in the unmodified task set.
blockedIdsOf(all) ==
    {ToString(all[i].id) : i \in
        {j \in Indices(all) : calculateEffectiveStatus(all[j], all).effectiveStatus = "restricted"}}

\* The execution order of the last render.
executionOrder == executionOrderOf(sortedTasks)

(***************************************************************************)
(* Bounds and the boards the model starts from                             *)
(***************************************************************************)
NumTasks == 3

TaskIds == 1..NumTasks
BoardStatuses == {"backlog", "ongoing", "done"}
BoardImportances == {Num(1), Num(5)}

RECURSIVE SeqOfSet(_)
SeqOfSet(S) ==
    IF S = {} THEN <<>>
    ELSE LET m == CHOOSE x \in S : \A y \in S : x <= y
         IN  <<ToString(m)>> \o SeqOfSet(S \ {m})

\* A task as handleCreateTask and handleUpdateTaskSubmit store it: no deadline set,
\* dependsOn the ids of other tasks.
BoardTask(id, status, importance, deps) ==
    [id |-> id, title |-> "T" \o ToString(id), status |-> status,
     importance |-> importance, effort |-> Num(1),
     hours_left_until_deadline |-> Num(0), deadline |-> Undefined,
     dependsOn |-> SeqOfSet(deps)]

\* Every dependency graph on the tasks, cycles included, without self-dependencies.
DependencyGraphs(ids) ==
    {f \in [ids -> SUBSET ids] : \A i \in ids : i \notin f[i]}

\* The boards of the simulator's specification: every status, importance and
\* dependency graph.
SimBoards(ids) ==
    {[i \in ids |-> BoardTask(i, st[i], im[i], dp[i])] :
        st \in [ids -> BoardStatuses],
        im \in [ids -> BoardImportances],
        dp \in DependencyGraphs(ids)}

\* The boards of the specification with board edits: importance alternates with the
\* id, so that a later task can outrank an earlier one.
alternatingImportance(i) == IF i % 2 = 1 THEN Num(1) ELSE Num(5)

Boards(ids) ==
    {[i \in ids |-> BoardTask(i, st[i], alternatingImportance(i), dp[i])] :
        st \in [ids -> BoardStatuses],
        dp \in DependencyGraphs(ids)}

NoCall == [fn |-> "none"]

(***************************************************************************)
(* Render and effects of PrioritySimulation and App after a state change:  *)
(* the memos are recomputed, the ref is refreshed, the stop-when-empty and *)
(* auto-play effects run until nothing changes.                            *)
(***************************************************************************)
\* The effect recomputing the snapshot whatever the completed set holds.
initiallyBlockedEffectAlways(all, completed, snapshot) ==
    IF Len(all) > 0 THEN blockedIdsOf(all) ELSE snapshot

\* The effect that keeps the initially-blocked snapshot.
initiallyBlockedEffect(all, completed, snapshot) ==
    IF Len(all) > 0 /\ Cardinality(completed) = 0 THEN blockedIdsOf(all) ELSE snapshot

\* No effect stopping the simulator.
stopWhenEmptyNever(playing, order) == playing

\* The two effects that stop playing when nothing is left to execute.
stopWhenEmpty(playing, order) == IF Len(order) = 0 /\ playing THEN FALSE ELSE playing

\* The auto-play effect: its cleanup clears the previous timer, and a timer is
\* armed when the simulator is playing.
\* The effect arming no timer.
autoPlayEffectNeverArms(armed, playing) == FALSE

\* The effect without its cleanup: a timer once armed stays armed.
autoPlayEffectNoCleanup(armed, playing) == armed \/ playing

autoPlayEffect(armed, playing) == playing

\* The ref keeping the order it was created with.
refreshExecutionOrderRefStale(current, order) == current

\* The effect that copies executionOrder into executionOrderRef.current after a render
\* in which executionOrder changed (and leaves an equal order as it is).
refreshExecutionOrderRef(current, order) == order

\* The effect that notifies the parent: it runs in the commit that renders the
\* requested isPlaying and again in the commit after a stop effect changed it.
notifications(requested, settled) ==
    IF requested = settled THEN <<settled>> ELSE <<requested, settled>>

\* What the renders and effects after a state change leave behind.
rendered(store, completed, playing, armed, snapshot) ==
    LET all == normalizeTasks(store)
        sorted == sortedTasksOf(all, completed)
        order == executionOrderOf(sorted)
        stillPlaying == stopWhenEmpty(playing, order)
    IN  [tasks |-> store,
         completedTaskIds |-> completed,
         sortedTasks |-> sorted,
         sortedForList |-> sortByPriority(store),
         executionOrderRef |-> order,
         isPlaying |-> stillPlaying,
         interval |-> autoPlayEffect(armed, stillPlaying),
         notified |-> notifications(playing, stillPlaying),
         initiallyBlockedTaskIds |-> initiallyBlockedEffect(all, completed, snapshot)]

Render(store, completed, playing, snapshot) ==
    \E r \in {rendered(store, completed, playing, interval, snapshot)} :
        /\ tasks' = r.tasks
        /\ completedTaskIds' = r.completedTaskIds
        /\ sortedTasks' = r.sortedTasks
        /\ sortedForList' = r.sortedForList
        /\ executionOrderRef' = refreshExecutionOrderRef(executionOrderRef, r.executionOrderRef)
        /\ isPlaying' = r.isPlaying
        /\ interval' = r.interval
        /\ notified' = r.notified
        /\ initiallyBlockedTaskIds' = r.initiallyBlockedTaskIds

\* The state after the first render of a board.
Mounted(board) ==
    /\ tasks = board
    /\ completedTaskIds = {}
    /\ completionOrder = <<>>
    /\ isPlaying = FALSE
    /\ interval = FALSE
    /\ notified = <<FALSE>>
    /\ sortedTasks = sortedTasksOf(normalizeTasks(tasks), {})
    /\ sortedForList = sortByPriority(tasks)
    /\ executionOrderRef = executionOrderOf(sortedTasks)
    /\ initiallyBlockedTaskIds = initiallyBlockedEffect(normalizeTasks(tasks), {}, {})
    /\ last = "init"

Init == \E board \in Boards(TaskIds) : Mounted(board) /\ call = NoCall

SimInit == \E board \in SimBoards(TaskIds) : Mounted(board) /\ call = NoCall

(***************************************************************************)
(* Execution Simulator: handlers                                           *)
(***************************************************************************)
controlsDisabled == Len(executionOrder) = 0 /\ Cardinality(completedTaskIds) = 0

\* setCompletedTaskIds(prev => new Set(prev).add(String(nextTask.id)))
addCompleted(prev, nextTask) == prev \cup {ToString(nextTask.id)}

\* setCompletionOrder(prev => [...prev, nextTask.id])
appendCompletion(prev, nextTask) == Append(prev, nextTask.id)

\* The callback taking the last task of the execution order.
TickCompletesLast ==
    /\ interval
    /\ LET currentExecutionOrder == executionOrderRef IN
       IF Len(currentExecutionOrder) = 0
       THEN /\ completionOrder' = completionOrder
            /\ Render(tasks, completedTaskIds, FALSE, initiallyBlockedTaskIds)
       ELSE LET nextTask == currentExecutionOrder[Len(currentExecutionOrder)] IN
            /\ completionOrder' = appendCompletion(completionOrder, nextTask)
            /\ Render(tasks, addCompleted(completedTaskIds, nextTask), isPlaying,
                      initiallyBlockedTaskIds)
    /\ last' = "tick"
    /\ UNCHANGED call

\* The callback writing the completion into the task store.
TickMarksDone ==
    /\ interval
    /\ LET currentExecutionOrder == executionOrderRef IN
       IF Len(currentExecutionOrder) = 0
       THEN /\ completionOrder' = completionOrder
            /\ Render(tasks, completedTaskIds, FALSE, initiallyBlockedTaskIds)
       ELSE LET nextTask == currentExecutionOrder[1] IN
            /\ completionOrder' = appendCompletion(completionOrder, nextTask)
            /\ Render(Array([i \in Indices(tasks) |->
                            IF tasks[i].id = nextTask.id
                            THEN [tasks[i] EXCEPT !.status = "done"] ELSE tasks[i]]),
                      addCompleted(completedTaskIds, nextTask), isPlaying,
                      initiallyBlockedTaskIds)
    /\ last' = "tick"
    /\ UNCHANGED call

\* The setInterval callback.
Tick ==
    /\ interval
    /\ LET currentExecutionOrder == executionOrderRef IN
       IF Len(currentExecutionOrder) = 0
       THEN /\ completionOrder' = completionOrder
            /\ Render(tasks, completedTaskIds, FALSE, initiallyBlockedTaskIds)
       ELSE LET nextTask == currentExecutionOrder[1] IN
            /\ completionOrder' = appendCompletion(completionOrder, nextTask)
            /\ Render(tasks, addCompleted(completedTaskIds, nextTask), isPlaying,
                      initiallyBlockedTaskIds)
    /\ last' = "tick"
    /\ UNCHANGED call

\* The Play/Pause button.
togglePlaying(playing) == ~playing

PlayPause ==
    /\ ~controlsDisabled
    /\ completionOrder' = completionOrder
    /\ Render(tasks, completedTaskIds, togglePlaying(isPlaying), initiallyBlockedTaskIds)
    /\ last' = IF isPlaying THEN "pause" ELSE "play"
    /\ UNCHANGED call

\* The Reset button.
\* The reset leaving the completed set as it is.
resetCompletedKeeps(prev) == prev

resetCompleted(prev) == {}
\* The reset leaving the completion history as it is.
resetOrderKeeps(prev) == prev

resetOrder(prev) == <<>>
resetPlaying(playing) == FALSE

Reset ==
    /\ ~controlsDisabled
    /\ completionOrder' = resetOrder(completionOrder)
    /\ Render(tasks, resetCompleted(completedTaskIds), resetPlaying(isPlaying),
              blockedIdsOf(normalizeTasks(tasks)))
    /\ last' = "reset"
    /\ UNCHANGED call

(***************************************************************************)
(* Board operations of App                                                 *)
(***************************************************************************)
\* One click finishing a task that was never started.
advanceOneFinishes(t) ==
    IF normalizeStatus(t.status) = "done" THEN t ELSE [t EXCEPT !.status = "done"]

advanceOne(t) ==
    LET st == normalizeStatus(t.status) IN
    IF st = "ongoing" THEN [t EXCEPT !.status = "done"]
    ELSE IF st = "done" THEN t
    ELSE [t EXCEPT !.status = "ongoing"]

\* advanceStatus without its dependency check.
advanceStatusUngated(store, task) ==
    Array([i \in Indices(store) |->
        IF store[i].id # task.id THEN store[i] ELSE advanceOne(store[i])])

\* advanceStatus(task) for a task of the rendered board.
advanceStatus(store, task) ==
    IF Len(unmetOf(task, store)) > 0 THEN store
    ELSE Array([i \in Indices(store) |->
             IF store[i].id # task.id THEN store[i] ELSE advanceOne(store[i])])

AdvanceStatus ==
    \E i \in Indices(tasks) :
        /\ completionOrder' = completionOrder
        /\ Render(advanceStatus(tasks, tasks[i]), completedTaskIds, isPlaying,
                  initiallyBlockedTaskIds)
        /\ last' = "advance"
        /\ UNCHANGED call

handleDeleteTask(store, task) == SelectSeq(store, LAMBDA t : t.id # task.id)

DeleteTask ==
    \E i \in Indices(tasks) :
        /\ completionOrder' = completionOrder
        /\ Render(handleDeleteTask(tasks, tasks[i]), completedTaskIds, isPlaying,
                  initiallyBlockedTaskIds)
        /\ last' = "delete"
        /\ UNCHANGED call

Next == Tick \/ PlayPause \/ Reset \/ AdvanceStatus \/ DeleteTask

Spec == Init /\ [][Next]_vars

\* The simulator alone, on a task set that nothing edits.
SimNext == Tick \/ PlayPause \/ Reset

SimSpec == SimInit /\ [][SimNext]_vars

\* The simulator with its timer: an armed setInterval timer keeps firing, every
\* speed milliseconds, until it is cleared.  This is weak fairness of Tick written
\* out: Tick is enabled exactly when a timer is armed, and every Tick step changes
\* the state (it completes a task or stops the simulator), so WF_vars(Tick) says
\* that either no timer is armed infinitely often or Tick steps occur infinitely
\* often.
FairSimSpec ==
    Init /\ [][SimNext]_vars /\ ([]<>(~interval) \/ []<><<Tick>>_vars)

(***************************************************************************)
(* The board from its first task on: tasks are created, edited, advanced   *)
(* and deleted while the simulator runs, and every board operation leaves  *)
(* its name and the id it was invoked on in call.                          *)
(***************************************************************************)
MaxCreated == 2

BoardCall(fn, id) == [fn |-> fn, id |-> id]

titleOf(id) == "T" \o ToString(id)

\* The dependency names typed into the task form, as the titles of the ids chosen.
RECURSIVE NamesOfSet(_)
NamesOfSet(S) ==
    IF S = {} THEN <<>>
    ELSE LET m == CHOOSE x \in S : \A y \in S : x <= y
         IN  <<titleOf(m)>> \o NamesOfSet(S \ {m})

\* workspaceTasks.find(t => title matches depName), skipping the task itself in an
\* update; String(found.id) or null, and filter(Boolean) drops the nulls.
dependencyIdsOf(workspaceTasks, names, self) ==
    LET matches(name) ==
            {i \in Indices(workspaceTasks) :
                /\ workspaceTasks[i].id # self
                /\ lowerTrim(workspaceTasks[i].title) = lowerTrim(name)}
        found == SelectSeq(names, LAMBDA name : matches(name) # {})
        first(name) == CHOOSE i \in matches(name) : \A j \in matches(name) : i <= j
    IN  Array([k \in Indices(found) |-> ToString(workspaceTasks[first(found[k])].id)])

\* The ids the state still refers to: tasks, their dependencies, the completions and
\* the snapshot.
idsInUse ==
    {ToString(tasks[i].id) : i \in Indices(tasks)}
    \cup UNION {Range(tasks[i].dependsOn) : i \in Indices(tasks)}
    \cup completedTaskIds
    \cup {ToString(completionOrder[i]) : i \in Indices(completionOrder)}
    \cup initiallyBlockedTaskIds

\* id: Date.now(), later than the id of every task created before.
dateNow ==
    1 + Cardinality({i \in 1..MaxCreated :
                        \E j \in i..MaxCreated : ToString(j) \in idsInUse})

NoSelf == 0

handleCreateTask(store, id, importance, names) ==
    Append(store, [BoardTask(id, "backlog", importance, {})
                      EXCEPT !.dependsOn = dependencyIdsOf(store, names, NoSelf)])

CreateTask ==
    \E importance \in BoardImportances, deps \in SUBSET (1..MaxCreated) :
        /\ dateNow <= MaxCreated
        /\ completionOrder' = completionOrder
        /\ Render(handleCreateTask(tasks, dateNow, importance, NamesOfSet(deps)),
                  completedTaskIds, isPlaying, initiallyBlockedTaskIds)
        /\ last' = "create"
        /\ call' = BoardCall("handleCreateTask", dateNow)

handleUpdateTaskSubmit(store, taskId, importance, names) ==
    Array([i \in Indices(store) |->
        IF store[i].id = taskId
        THEN [store[i] EXCEPT !.importance = importance,
                              !.hours_left_until_deadline = Num(0),
                              !.dependsOn = dependencyIdsOf(store, names, taskId)]
        ELSE store[i]])

UpdateTask ==
    \E i \in Indices(tasks), importance \in BoardImportances,
       deps \in SUBSET (1..MaxCreated) :
        /\ completionOrder' = completionOrder
        /\ Render(handleUpdateTaskSubmit(tasks, tasks[i].id, importance, NamesOfSet(deps)),
                  completedTaskIds, isPlaying, initiallyBlockedTaskIds)
        /\ last' = "update"
        /\ call' = BoardCall("handleUpdateTaskSubmit", tasks[i].id)

AdvanceTask ==
    \E i \in Indices(tasks) :
        /\ completionOrder' = completionOrder
        /\ Render(advanceStatus(tasks, tasks[i]), completedTaskIds, isPlaying,
                  initiallyBlockedTaskIds)
        /\ last' = "advance"
        /\ call' = BoardCall("advanceStatus", tasks[i].id)

RemoveTask ==
    \E i \in Indices(tasks) :
        /\ completionOrder' = completionOrder
        /\ Render(handleDeleteTask(tasks, tasks[i]), completedTaskIds, isPlaying,
                  initiallyBlockedTaskIds)
        /\ last' = "delete"
        /\ call' = BoardCall("handleDeleteTask", tasks[i].id)

\* A workspace that was just selected: tasksByWorkspace[activeWs.id] = [].
EditInit == Mounted(<<>>) /\ call = NoCall

EditNext ==
    CreateTask \/ UpdateTask \/ AdvanceTask \/ RemoveTask \/ Tick \/ PlayPause \/ Reset

EditSpec == EditInit /\ [][EditNext]_vars

(***************************************************************************)
(* The Priority Calculator on its own: a task drawn from the edge values,  *)
(* and a second task that differs from it in one field.                    *)
(***************************************************************************)
Date(ms) == [k |-> "date", n |-> ms, d |-> 1]

PriorityValues ==
    {Undefined, Null, NaN, Num(-5), Num(0), PosInf, Num(-1), Num(2), Num(1000),
     Num(2000)}
DeadlineValues == {Undefined, InvalidDate, Date(5400000)}
PriorityFields == {"importance", "effort", "hours_left_until_deadline"}

PriorityInput(importance, effort, hours, deadline) ==
    [importance |-> importance, effort |-> effort,
     hours_left_until_deadline |-> hours, deadline |-> deadline]

withField(task, field, v) ==
    IF field = "importance" THEN [task EXCEPT !.importance = v]
    ELSE IF field = "effort" THEN [task EXCEPT !.effort = v]
    ELSE [task EXCEPT !.hours_left_until_deadline = v]

Pending == [priority |-> NaN, breakdown |-> NaN, otherPriority |-> NaN,
            otherBreakdown |-> NaN, done |-> FALSE]

PriorityInit ==
    /\ Mounted(<<>>)
    /\ \E importance \in PriorityValues, effort \in PriorityValues,
          hours \in PriorityValues, deadline \in DeadlineValues,
          field \in PriorityFields, v \in PriorityValues :
          call = [fn |-> "computePriority",
                  task |-> PriorityInput(importance, effort, hours, deadline),
                  other |-> withField(PriorityInput(importance, effort, hours, deadline),
                                      field, v),
                  field |-> field,
                  out |-> Pending]

\* Both copies of the formula applied to both tasks.
ComputePriority ==
    /\ call.fn = "computePriority"
    /\ ~call.out.done
    /\ call' = [call EXCEPT !.out =
                    [priority |-> calculateComputedPriority(call.task),
                     breakdown |-> breakdownPriority(call.task),
                     otherPriority |-> calculateComputedPriority(call.other),
                     otherBreakdown |-> breakdownPriority(call.other),
                     done |-> TRUE]]
    /\ UNCHANGED <<tasks, completedTaskIds, completionOrder, isPlaying,
                   initiallyBlockedTaskIds, sortedTasks, sortedForList,
                   executionOrderRef, interval, notified, last>>

PrioritySpec == PriorityInit /\ [][ComputePriority]_vars

(***************************************************************************)
(* The Status Resolver on its own: collections whose raw status strings    *)
(* need normalizing and whose dependsOn may name a task that is not there, *)
(* resolved as the task card's click handler does, between board edits.    *)
(***************************************************************************)
ResolverTasks == 2

ResolverIds == 1..ResolverTasks
\* An id no task of the collection has.
MissingIds == {9}
RawStatuses == {"backlog", " Done ", "In Progress", " Blocked", "restricted"}

ResolverBoards(ids) ==
    {[i \in ids |-> BoardTask(i, st[i], alternatingImportance(i), dp[i])] :
        st \in [ids -> RawStatuses],
        dp \in {f \in [ids -> SUBSET (ids \cup MissingIds)] : \A i \in ids : i \notin f[i]}}

ResolverInit == \E board \in ResolverBoards(ResolverIds) : Mounted(board) /\ call = NoCall

\* TaskPriorityGraphD3's own normalizeStatus.
normalizeStatusGraph(s) ==
    LET v == lowerTrim(s) IN
    IF v = "done" THEN "done"
    ELSE IF v = "ongoing" \/ v = "on going" \/ v = "in progress" THEN "ongoing"
    ELSE "todo"

isDoneGraph(t) == normalizeStatusGraph(t.status) = "done"

\* The _effectiveStatus and _blockedReason TaskPriorityGraphD3 gives a node.
enriched(t, sorted) ==
    LET raw == normalizeStatusGraph(t.status)
        unmet == SelectSeq(t.dependsOn,
                           LAMBDA id : HasId(sorted, id) /\ ~isDoneGraph(byIdGet(sorted, id)))
        blockedByDeps == Len(unmet) > 0
    IN  [effectiveStatus |-> IF raw # "done" /\ blockedByDeps THEN "restricted" ELSE raw,
         blockedReason |-> blockedReasonOf(unmet, sorted)]

\* calculateEffectiveStatus(t, tasks) for a task of the rendered board, and the
\* graph's node for the same task.
ResolveStatus ==
    \E i \in Indices(tasks) :
        /\ call' = [fn |-> "resolveStatus",
                    task |-> normalizeTasks(tasks)[i],
                    allTasks |-> normalizeTasks(tasks),
                    unmet |-> unmetOf(normalizeTasks(tasks)[i], normalizeTasks(tasks)),
                    out |-> calculateEffectiveStatus(normalizeTasks(tasks)[i],
                                                     normalizeTasks(tasks)),
                    node |-> enriched(normalizeTasks(tasks)[i], normalizeTasks(tasks))]
        /\ last' = "resolve"
        /\ UNCHANGED <<tasks, completedTaskIds, completionOrder, isPlaying,
                       initiallyBlockedTaskIds, sortedTasks, sortedForList,
                       executionOrderRef, interval, notified>>

ResolverNext == ResolveStatus \/ AdvanceStatus \/ DeleteTask

ResolverSpec == ResolverInit /\ [][ResolverNext]_vars

(***************************************************************************)
(* Properties                                                              *)
(***************************************************************************)
ClaimedEdgeValues == {Undefined, Null, NaN, Num(-5), Num(0), PosInf}

NonNegativeFinite(p) == IsFinite(p) /\ p.n >= 0

PriorityComputed == call.fn = "computePriority" /\ call.out.done

\* C1: for importance, effort and hoursUntilDeadline each drawn from undefined, null,
\* NaN, -5, 0 and Infinity (no deadline date set), both copies of the priority formula
\* return a finite number that is not negative.
C1_PrioritySafety ==
    (/\ PriorityComputed
     /\ call.task.importance \in ClaimedEdgeValues
     /\ call.task.effort \in ClaimedEdgeValues
     /\ call.task.hours_left_until_deadline \in ClaimedEdgeValues
     /\ call.task.deadline = Undefined)
    => /\ NonNegativeFinite(call.out.priority)
       /\ NonNegativeFinite(call.out.breakdown)

\* The two tasks C2 compares: the same importance (> 0) and effort, 1 hour overdue
\* against 1000 hours left.
OverdueAgainstThousand ==
    /\ PriorityComputed
    /\ call.field = "hours_left_until_deadline"
    /\ call.task.hours_left_until_deadline = Num(-1)
    /\ call.other.hours_left_until_deadline = Num(1000)
    /\ GreaterThanZero(NumberOr(call.task.importance, DefaultImportance))

\* C2 as stated: the task that is 1 hour overdue has a strictly greater computed
\* priority than the otherwise identical task with 1000 hours left.
C2_OverdueStrictlyGreater ==
    OverdueAgainstThousand =>
        /\ Less(call.out.otherPriority, call.out.priority)
        /\ Less(call.out.otherBreakdown, call.out.breakdown)

\* C2 as amended: the task that is 1 hour overdue has exactly the computed priority
\* of the otherwise identical task with 1000 hours left: the urgency floor 0.001
\* equals 1/1000 and does not exceed it.
C2_OverdueEqualsThousandHours ==
    OverdueAgainstThousand =>
        /\ call.out.priority = call.out.otherPriority
        /\ call.out.breakdown = call.out.otherBreakdown

C2_Witness ==
    /\ OverdueAgainstThousand
    /\ call.task.importance = Num(2)
    /\ call.task.effort = Num(2)
    /\ call.out.priority = Frac(1, 1000)
    /\ call.out.otherPriority = Frac(1, 1000)

StatusResolved == call.fn = "resolveStatus"

\* C3: whatever the collection and the task's dependencies (unmet, missing, cyclic),
\* the resolver returns effectiveStatus done exactly when the task's normalized raw
\* status is done.
C3_DoneIffRawDone ==
    StatusResolved =>
        (call.out.effectiveStatus = "done" <=> normalizeStatus(call.task.status) = "done")

\* A task whose raw status needs normalizing to done, resolved done while a
\* dependency of it is present and not done.
C3_Witness ==
    /\ StatusResolved
    /\ call.task.status = " Done "
    /\ Len(call.unmet) > 0
    /\ call.out.effectiveStatus = "done"

\* The task resolved has exactly one dependency, and that task is in the collection.
SingleDependency ==
    /\ StatusResolved
    /\ Len(call.task.dependsOn) = 1
    /\ HasId(call.allTasks, call.task.dependsOn[1])

TheDependency == byIdGet(call.allTasks, call.task.dependsOn[1])

\* C4: with dependsOn = [B.id] and B in the collection, A resolves to restricted while
\* B is not done and A's raw status is todo or ongoing; with B done, A resolves to its
\* own normalized raw status.
C4_DependencyGating ==
    SingleDependency =>
        /\ (~isDone(TheDependency)
              /\ normalizeStatus(call.task.status) \in {"todo", "ongoing"})
            => call.out.effectiveStatus = "restricted"
        /\ isDone(TheDependency)
            => call.out.effectiveStatus = normalizeStatus(call.task.status)

\* B was advanced to done by advanceStatus (no starting board holds the string
\* "done"), and A, resolved after that, is no longer restricted.
C4_Witness ==
    /\ SingleDependency
    /\ last = "resolve"
    /\ TheDependency.status = "done"
    /\ call.task.status = "In Progress"
    /\ call.out.effectiveStatus = "ongoing"

\* The effective status the board shows for the task with this id.
shownStatus(id) ==
    LET i == CHOOSE j \in Indices(sortedForList) : sortedForList[j].id = id
    IN  sortedForList[i].effectiveStatus

OnlyMissingDependencies(t) ==
    \A d \in Range(t.dependsOn) : ~HasId(tasks, d)

Ranked(list, restricted) ==
    \A i, j \in Indices(list) :
        i < j =>
            /\ ~(restricted[i] /\ ~restricted[j])
            /\ (restricted[i] <=> restricted[j])
                => ~Less(list[i].computedPriority, list[j].computedPriority)

\* C6: in the simulator's sorted list and in the board's sorted list, every unrestricted
\* task precedes every restricted task, and within each group computedPriority is
\* non-increasing.
C6_RankingPartition ==
    /\ Ranked(sortedTasks, [i \in Indices(sortedTasks) |-> sortedTasks[i].isBlocked])
    /\ Ranked(sortedForList,
              [i \in Indices(sortedForList) |-> sortedForList[i].effectiveStatus = "restricted"])

\* A restricted task that is first on the board is ranked last, and the two tasks
\* ahead of it are reordered by priority.
C6_Witness ==
    /\ Len(sortedTasks) = 3
    /\ sortedTasks[3].id = 1 /\ sortedTasks[3].isBlocked
    /\ sortedTasks[1].id = 3 /\ ~sortedTasks[1].isBlocked
    /\ Less(sortedTasks[2].computedPriority, sortedTasks[1].computedPriority)
    /\ sortedForList[1].id = 3 /\ sortedForList[3].id = 1
    /\ completionOrder # <<>>

\* The dependency graph of the board has no cycle.
DependsOn(i, j) == ToString(tasks[j].id) \in Range(tasks[i].dependsOn)

Cycles ==
    {c \in UNION {[1..n -> Indices(tasks)] : n \in 1..Len(tasks)} :
        /\ \A k \in 1..(Len(c) - 1) : DependsOn(c[k], c[k + 1])
        /\ DependsOn(c[Len(c)], c[1])}

Acyclic == Cycles = {}

NoDuplicates(seq) == \A i, j \in Indices(seq) : seq[i] = seq[j] => i = j

\* Every dependency of a completed task that is on the board was already done or
\* was completed earlier.
DependenciesFirst ==
    \A k \in Indices(completionOrder) :
        \A i \in Indices(tasks) :
            tasks[i].id = completionOrder[k] =>
                \A j \in Indices(tasks) :
                    DependsOn(i, j) =>
                        \/ isDone(tasks[j])
                        \/ \E e \in 1..(k - 1) : completionOrder[e] = tasks[j].id

\* C7 as stated: on an acyclic board of N tasks, when the last step has emptied the
\* execution order, the completion history holds exactly N completions, each task
\* once, every dependency before its dependents.
C7_AllTasksComplete ==
    (Acyclic /\ last = "tick" /\ Len(executionOrderRef) = 0) =>
        /\ Len(completionOrder) = Len(tasks)
        /\ NoDuplicates(completionOrder)
        /\ DependenciesFirst

\* C7 as amended: on an acyclic board whose stored statuses are backlog, ongoing or
\* done, once the execution order is empty the completion history holds exactly the
\* tasks that were not already done, each once, and every dependency of a completed
\* task was already done or was completed before it.
C7_OpenTasksComplete ==
    (Acyclic /\ Len(executionOrderRef) = 0) =>
        /\ Range(completionOrder) = {tasks[i].id : i \in {j \in Indices(tasks) : ~isDone(tasks[j])}}
        /\ NoDuplicates(completionOrder)
        /\ DependenciesFirst

\* Two tasks were completed, the dependency first though it is listed after its
\* dependent, and the third task was done from the start.
C7_Witness ==
    /\ Acyclic /\ last = "tick" /\ Len(executionOrderRef) = 0
    /\ isDone(tasks[3])
    /\ DependsOn(1, 2)
    /\ completionOrder = <<2, 1>>

\* C8: after Reset, the execution order is the one computed from the same task set
\* with an empty completed set.
C8_ResetRestoresOrder ==
    last = "reset" =>
        /\ executionOrderRef = executionOrderOf(sortedTasksOf(normalizeTasks(tasks), {}))
        /\ executionOrder = executionOrderRef

C8_Witness ==
    /\ last = "reset"
    /\ Len(executionOrderRef) > 1
    /\ completedTaskIds = {}

\* What the render before a tick makes of the board.
breakdownsNow == taskBreakdowns(normalizeTasks(tasks), completedTaskIds)

\* C9: a tick that finds the execution order non-empty completes exactly one task:
\* the head of the execution order, which has the highest computedPriority of the
\* tasks that are not restricted, not effectively done and not completed; it was not
\* in the completed set before and is appended to the completion history.
C9_TickCompletesHead ==
    [][(last' = "tick" /\ Len(executionOrderRef) > 0) =>
        \E t \in Range(breakdownsNow) :
            /\ ~t.isBlocked /\ t.effectiveStatus # "done"
            /\ ToString(t.id) \notin completedTaskIds
            /\ \A u \in Range(breakdownsNow) :
                  (~u.isBlocked /\ u.effectiveStatus # "done"
                        /\ ToString(u.id) \notin completedTaskIds)
                  => ~Less(t.computedPriority, u.computedPriority)
            /\ executionOrderRef[1].id = t.id
            /\ completedTaskIds' = completedTaskIds \cup {ToString(t.id)}
            /\ completionOrder' = Append(completionOrder, t.id)
            /\ tasks' = tasks]_vars

\* A tick completed the task of highest priority, which is not the first of the
\* board, and left more to execute.
C9_Witness ==
    /\ last = "tick"
    /\ completionOrder = <<2>>
    /\ completedTaskIds = {"2"}
    /\ Len(executionOrderRef) > 0

\* C10: while the simulator is not playing no timer is armed, and the completed set
\* and the completion history do not grow.
C10_NoStepWhileNotPlaying ==
    [][/\ ~isPlaying => /\ ~interval
                        /\ completedTaskIds' \subseteq completedTaskIds
                        /\ Len(completionOrder') <= Len(completionOrder)
       /\ ~isPlaying' => ~interval']_vars

\* Paused after a step, with tasks left to execute and no timer armed.
C10_Witness ==
    /\ last = "pause"
    /\ ~isPlaying /\ ~interval
    /\ completionOrder # <<>>
    /\ Len(executionOrderRef) > 0

\* The execution order derived from the task set and the completed set as they are.
latestExecutionOrder ==
    executionOrderOf(sortedTasksOf(normalizeTasks(tasks), completedTaskIds))

\* C11: the task a tick completes is the head of the execution order derived from the
\* task set and the completed set as they are when the tick fires, which is the order
\* the ref holds then, whatever completions, deletes and advances came before.
C11_TickReadsLatestOrder ==
    [][(last' = "tick" /\ completionOrder' # completionOrder) =>
        /\ Len(latestExecutionOrder) > 0
        /\ executionOrderRef = latestExecutionOrder
        /\ completionOrder' = Append(completionOrder, latestExecutionOrder[1].id)]_vars

\* Task 1 was completed and then deleted, and a later tick completed task 3, the head
\* of the order without task 1.
C11_Witness ==
    /\ last = "tick"
    /\ completionOrder = <<2, 1, 3>>
    /\ \A i \in Indices(tasks) : tasks[i].id # 1

SimulatorHandlers == {"tick", "play", "pause", "reset"}

\* C12: a tick, a start, a pause and a reset leave the workspace task store as it is,
\* raw statuses and every other field of every task; completions are kept in the
\* completed set and the completion history only.
C12_SimulatorLeavesTasksAlone ==
    [][last' \in SimulatorHandlers => tasks' = tasks]_vars

\* Two tasks were completed by ticks and are still stored as backlog.
C12_Witness ==
    /\ last = "tick"
    /\ Len(completionOrder) = 2
    /\ \E i, j \in Indices(tasks) :
          /\ i # j
          /\ {ToString(tasks[i].id), ToString(tasks[j].id)} \subseteq completedTaskIds
          /\ tasks[i].status = "backlog" /\ tasks[j].status = "backlog"

\* Start was invoked with nothing to execute.
StartedOnEmptyOrder == last = "play" /\ Len(executionOrderRef) = 0

\* C13 as stated: after start on an empty execution order isPlaying is false and no
\* subscriber was handed isPlaying = true.
C13_StartOnEmptyOrderUnobserved ==
    StartedOnEmptyOrder =>
        /\ ~isPlaying
        /\ \A k \in Indices(notified) : ~notified[k]

\* C13 as amended: start on an empty execution order leaves isPlaying false, no timer
\* armed, and the task store, completed set, completion history, snapshot and
\* execution order unchanged; with tasks already completed the handler does set
\* isPlaying, so subscribers are handed isPlaying = true and then false.
C13_StartOnEmptyOrderSettlesIdle ==
    [][(last' = "play" /\ Len(executionOrderRef) = 0) =>
        /\ ~isPlaying' /\ ~interval'
        /\ UNCHANGED <<tasks, completedTaskIds, completionOrder, initiallyBlockedTaskIds,
                       executionOrderRef, sortedTasks>>
        /\ completedTaskIds # {} => notified' = <<TRUE, FALSE>>]_vars

\* Every task was completed, and start was pressed again.
C13_Witness ==
    /\ StartedOnEmptyOrder
    /\ Len(completionOrder) = 3
    /\ ~isPlaying
    /\ notified = <<TRUE, FALSE>>

\* The tasks of the store that are not done and have a dependency in the store that is
\* not done.
RestrictedInStore ==
    {ToString(tasks[i].id) : i \in
        {j \in Indices(tasks) :
            /\ ~isDone(tasks[j])
            /\ \E d \in Range(tasks[j].dependsOn) :
                  HasId(tasks, d) /\ ~isDone(byIdGet(tasks, d))}}

\* C14: after Reset the completed set and the completion history are empty, isPlaying
\* is false, and the initially-blocked snapshot is exactly the set of tasks that are
\* restricted in the unmodified task set.
C14_ResetPostState ==
    last = "reset" =>
        /\ completedTaskIds = {}
        /\ completionOrder = <<>>
        /\ ~isPlaying
        /\ initiallyBlockedTaskIds = RestrictedInStore

\* Reset on a board a task was deleted from, with one task restricted.
C14_Witness ==
    /\ last = "reset"
    /\ Len(tasks) = 2
    /\ initiallyBlockedTaskIds = {"3"}
    /\ completedTaskIds = {}

\* C15: a simulator that is playing has a non-empty execution order (with an empty one
\* it goes idle in the same step), never has more completions than there are tasks,
\* and, its timer firing and the tasks not edited, always becomes idle.
C15_RunningSimulationStops ==
    /\ [](isPlaying => Len(executionOrderRef) > 0)
    /\ [](Len(completionOrder) <= Len(tasks))
    /\ (isPlaying ~> ~isPlaying)

\* The tick that completed the last of three tasks stopped the simulator.
C15_Witness ==
    /\ last = "tick"
    /\ Len(completionOrder) = 3
    /\ Len(executionOrderRef) = 0
    /\ ~isPlaying /\ ~interval
    /\ notified = <<TRUE, FALSE>>

\* The task of the store that a breakdown was made from.
storedTask(id) == byIdGet(tasks, ToString(id))

\* C16: in every evaluation pass of the simulator a task whose id is in the completed
\* set has effectiveStatus done in its own breakdown, and a task is restricted only if
\* a dependency of it in the store is neither done nor in the completed set.
C16_CompletedTreatedAsDone ==
    \A k \in Indices(sortedTasks) :
        /\ sortedTasks[k].isCompletedInSimulation => sortedTasks[k].effectiveStatus = "done"
        /\ sortedTasks[k].isBlocked =>
              \E d \in Range(storedTask(sortedTasks[k].id).dependsOn) :
                  /\ HasId(tasks, d)
                  /\ ~isDone(byIdGet(tasks, d))
                  /\ d \notin completedTaskIds

\* C17: the resolver returns a blockedReason other than null only together with
\* effectiveStatus restricted; for a task whose raw status is done the blockedReason
\* is null, whatever its dependencies.
C17_ReasonOnlyWhenRestricted ==
    StatusResolved =>
        /\ call.out.blockedReason # NoReason => call.out.effectiveStatus = "restricted"
        /\ normalizeStatus(call.task.status) = "done" => call.out.blockedReason = NoReason

\* The task resolved has a dependency that is in the collection and not done.
HasUnmetDependency ==
    \E d \in Range(call.task.dependsOn) :
        HasId(call.allTasks, d) /\ ~isDone(byIdGet(call.allTasks, d))

RawNotDone == lowerTrim(call.task.status) # "done"

AuthorSetRestricted == lowerTrim(call.task.status) \in {"restricted", "blocked"}

DependsOnlyOn(a, b) == a.dependsOn = <<ToString(b.id)>>

\* a -> b -> c: a depends only on b, b only on c, three different tasks of the board.
Chains ==
    {<<a, b, c>> \in Indices(tasks) \X Indices(tasks) \X Indices(tasks) :
        /\ a # b /\ b # c /\ a # c
        /\ DependsOnlyOn(tasks[a], tasks[b])
        /\ DependsOnlyOn(tasks[b], tasks[c])}

\* C19: dependency checking looks one level deep.  On a chain a -> b -> c where a is
\* not done, a is shown restricted exactly when b is not done, whatever the state of
\* c; and any task of the board is shown restricted exactly when it is not done and
\* one of its direct dependencies is on the board and not done.
C19_OneLevelDeep ==
    /\ \A ch \in Chains :
          ~isDone(tasks[ch[1]]) =>
              (shownStatus(tasks[ch[1]].id) = "restricted" <=> ~isDone(tasks[ch[2]]))
    /\ \A i \in Indices(tasks) :
          shownStatus(tasks[i].id) = "restricted"
              <=> /\ ~isDone(tasks[i])
                  /\ \E d \in Range(tasks[i].dependsOn) :
                        HasId(tasks, d) /\ ~isDone(byIdGet(tasks, d))

\* A chain whose middle task was marked done while its own dependency is still open:
\* the middle task is shown done and the task that depends on it is not restricted.
C19_Witness ==
    \E ch \in Chains :
        /\ ~isDone(tasks[ch[1]])
        /\ isDone(tasks[ch[2]])
        /\ ~isDone(tasks[ch[3]])
        /\ shownStatus(tasks[ch[1]].id) \in {"todo", "ongoing"}
        /\ shownStatus(tasks[ch[2]].id) = "done"
        /\ last = "advance"

\* Two tasks of equal importance (> 0) and effort: the first has no deadline window or
\* is overdue (its hours are absent, not finite, or <= 0), the second has a positive
\* finite number of hours left.
FloorAgainstWindow ==
    /\ PriorityComputed
    /\ call.field = "hours_left_until_deadline"
    /\ ~(call.task.deadline.k = "date" /\ IsNullish(call.task.hours_left_until_deadline))
    /\ LET hours == NumberOr(call.task.hours_left_until_deadline, DefaultHours)
       IN  ~IsFinite(hours) \/ LessOrEqualZero(hours)
    /\ IsFinite(call.other.hours_left_until_deadline)
    /\ GreaterThanZero(call.other.hours_left_until_deadline)
    /\ GreaterThanZero(NumberOr(call.task.importance, DefaultImportance))

importanceOf(task) == NumberOr(task.importance, DefaultImportance)
effortOf(task) == safeEffortOf(NumberOr(task.effort, DefaultEffort))

\* C21: priority monotonicity.  Of two tasks that differ in importance only, the one
\* with the larger importance has no smaller computed priority; of two tasks that
\* differ in effort only, the one with the larger effort (after the floor of 1 for
\* non-positive effort) has no larger computed priority.
C21_PriorityMonotonicity ==
    PriorityComputed =>
        /\ (call.field = "importance"
            /\ Less(importanceOf(call.task), importanceOf(call.other)))
           => /\ ~Less(call.out.otherPriority, call.out.priority)
              /\ ~Less(call.out.otherBreakdown, call.out.breakdown)
        /\ (call.field = "effort"
            /\ Less(effortOf(call.task), effortOf(call.other)))
           => /\ ~Less(call.out.priority, call.out.otherPriority)
              /\ ~Less(call.out.breakdown, call.out.otherBreakdown)

\* The task has a dependency that is on the board and whose raw status is not done.
Gated(t) ==
    \E d \in Range(t.dependsOn) : HasId(tasks, d) /\ ~isDone(byIdGet(tasks, d))

\* C22: advanceStatus invoked on a task with at least one dependency that is on the
\* board and not done leaves the whole task store unchanged.
C22_AdvanceGatedByDependencies ==
    [][(/\ last' = "advance"
        /\ HasId(tasks, ToString(call'.id))
        /\ Gated(byIdGet(tasks, ToString(call'.id))))
       => tasks' = tasks]_vars

\* advanceStatus was invoked on a task that is backlog and depends on a task that is
\* ongoing: it is still backlog.
C22_Witness ==
    /\ last = "advance"
    /\ call.fn = "advanceStatus"
    /\ HasId(tasks, ToString(call.id))
    /\ LET t == byIdGet(tasks, ToString(call.id))
       IN  /\ Gated(t)
           /\ t.status = "backlog"
           /\ Len(t.dependsOn) = 1
           /\ byIdGet(tasks, t.dependsOn[1]).status = "ongoing"

\* The normalized raw status of the task with this id in a store.
rawStatusIn(store, id) == normalizeStatus(byIdGet(store, ToString(id)).status)

ForwardSteps == {<<"todo", "ongoing">>, <<"ongoing", "done">>}

\* C23: raw status only moves forward on the board.  In every step, a task that is
\* on the board before and after it changes its normalized raw status only if the
\* step is advanceStatus invoked on that task, and then from todo to ongoing or from
\* ongoing to done; so a done task stays done and no other task's status changes.
C23_RawStatusOnlyMovesForward ==
    [][\A i \in Indices(tasks) :
          LET id == tasks[i].id IN
          (HasId(tasks', ToString(id)) /\ rawStatusIn(tasks', id) # rawStatusIn(tasks, id))
          => /\ last' = "advance"
             /\ call' = BoardCall("advanceStatus", id)
             /\ <<rawStatusIn(tasks, id), rawStatusIn(tasks', id)>> \in ForwardSteps]_vars

\* Two advances have finished one task, the other task is still backlog, and the
\* finished task was edited since.
C23_Witness ==
    /\ last = "update"
    /\ Len(tasks) = 2
    /\ HasId(tasks, ToString(call.id))
    /\ byIdGet(tasks, ToString(call.id)).status = "done"
    /\ \E i \in Indices(tasks) : tasks[i].id # call.id /\ tasks[i].status = "backlog"

\* The tasks of the dependency cycles all of whose tasks are stored as not done.
LiveCycleMembers ==
    UNION {Range(c) : c \in {c \in Cycles : \A k \in Indices(c) : ~isDone(tasks[c[k]])}}

\* C24: dependency cycles do not break the simulator.  A task on a dependency cycle
\* none of whose tasks is stored as done is never completed and is restricted in
\* every evaluation pass, and a simulator playing on such a board reaches idle.
C24_CyclesStayRestricted ==
    /\ [](\A i \in LiveCycleMembers :
            /\ ToString(tasks[i].id) \notin completedTaskIds
            /\ tasks[i].id \notin Range(completionOrder)
            /\ \A k \in Indices(sortedTasks) :
                  sortedTasks[k].id = tasks[i].id =>
                      /\ sortedTasks[k].isBlocked
                      /\ sortedTasks[k].effectiveStatus = "restricted")
    /\ ((isPlaying /\ LiveCycleMembers # {}) ~> (~isPlaying /\ ~interval))

\* Tasks 1 and 2 depend on each other and are not done; the simulator completed
\* task 3, the next tick found nothing to execute and stopped it.
C24_Witness ==
    /\ Cardinality(LiveCycleMembers) = 2
    /\ completionOrder = <<3>>
    /\ last = "tick"
    /\ Len(executionOrderRef) = 0
    /\ ~isPlaying /\ ~interval
    /\ \A k \in Indices(sortedTasks) :
          sortedTasks[k].id # 3 => sortedTasks[k].isBlocked

BoardEdits == {"create", "update", "advance", "delete"}

\* C25: the initially-blocked snapshot is frozen while completions exist.  A board
\* edit that changes the task set while the completed set is not empty leaves the
\* snapshot as it was, and the snapshot changes only in a reset or in a board edit
\* made while the completed set is empty.
C25_SnapshotFrozenWhileCompletionsExist ==
    [][/\ (last' \in BoardEdits /\ tasks' # tasks /\ completedTaskIds # {})
            => initiallyBlockedTaskIds' = initiallyBlockedTaskIds
       /\ initiallyBlockedTaskIds' # initiallyBlockedTaskIds
            => \/ last' = "reset"
               \/ last' \in BoardEdits /\ tasks' # tasks /\ completedTaskIds = {}]_vars

\* Task 2 depended on task 1 when the simulation started; task 1 was completed and
\* task 2 was then edited to depend on nothing: the snapshot still names task 2.
C25_Witness ==
    /\ last = "update"
    /\ call = BoardCall("handleUpdateTaskSubmit", 2)
    /\ completedTaskIds = {"1"}
    /\ initiallyBlockedTaskIds = {"2"}
    /\ blockedIdsOf(normalizeTasks(tasks)) = {}
    /\ Len(tasks) = 2

\* C27: the completion history never holds the same task id twice, whatever the
\* interleaving of ticks, play and pause, resets, advances and deletions, and it
\* holds exactly the ids of the completed set.
C27_NoTaskCompletedTwice ==
    /\ NoDuplicates(completionOrder)
    /\ {ToString(completionOrder[k]) : k \in Indices(completionOrder)} = completedTaskIds

\* Two ticks completed two tasks, one of them was deleted from the board between or
\* after them, and the simulator is still playing.
C27_Witness ==
    /\ last = "tick"
    /\ Len(completionOrder) = 2
    /\ Len(tasks) = 2
    /\ \E k \in Indices(completionOrder) : ~HasId(tasks, ToString(completionOrder[k]))
    /\ isPlaying

\* Every dependency of the task that is on the board is stored as done or is in the
\* completed set.
DependenciesMet(t) ==
    \A d \in Range(t.dependsOn) :
        HasId(tasks, d) => (isDone(byIdGet(tasks, d)) \/ d \in completedTaskIds)

\* C28: a tick that completes a task completes a task of the board each of whose
\* direct dependencies on the board is stored as done or was completed before, and
\* which the evaluation pass before the tick did not hold restricted.
C28_CompletesOnlyUnrestricted ==
    [][(last' = "tick" /\ completionOrder' # completionOrder) =>
          LET id == completionOrder'[Len(completionOrder')] IN
          /\ HasId(tasks, ToString(id))
          /\ DependenciesMet(byIdGet(tasks, ToString(id)))
          /\ \A k \in Indices(sortedTasks) :
                sortedTasks[k].id = id => ~sortedTasks[k].isBlocked]_vars

\* The last tick completed a task whose dependency is on the board, still stored as
\* not done, and was completed by an earlier tick.
C28_Witness ==
    /\ last = "tick"
    /\ Len(completionOrder) >= 2
    /\ LET id == completionOrder[Len(completionOrder)] IN
       /\ HasId(tasks, ToString(id))
       /\ \E d \in Range(byIdGet(tasks, ToString(id)).dependsOn) :
             /\ HasId(tasks, d)
             /\ ~isDone(byIdGet(tasks, d))
             /\ d \in completedTaskIds

\* C29: the graph view and the engine agree on status.  For every task of every
\* board, the effective status and the blocked reason the graph computes for the node
\* are those calculateEffectiveStatus returns, raw statuses "blocked" and
\* "restricted" included.
C29_GraphAgreesWithEngine ==
    StatusResolved =>
        /\ call.node.effectiveStatus = call.out.effectiveStatus
        /\ call.node.blockedReason = call.out.blockedReason

\* C30: every id of the completed set is the id of a task of the current board, also
\* after a task is deleted while completions are recorded, so the completed count
\* shown never exceeds the number of tasks.
C30_CompletedAreTasksOfTheBoard ==
    /\ \A id \in completedTaskIds : HasId(tasks, id)
    /\ Cardinality(completedTaskIds) <= Len(tasks)

====
